---------------------------- MODULE Spec2Model ----------------------------
(***************************************************************************)
(* The memory table of the brainfuck STARK                                 *)
(* (stark-brainfuck/src/memory_table.rs): derivation of the base matrix    *)
(* from the processor trace, padding, extension with the running           *)
(* permutation product, and the transition / boundary / terminal           *)
(* constraints evaluated on rows of the table.                             *)
(*                                                                         *)
(* Field elements.  A BFieldElement is an integer modulo the prime P; an   *)
(* XFieldElement is a triple <<c0, c1, c2>> of coefficients of             *)
(* c0 + c1*x + c2*x^2 in F_P[x] / (x^3 - x + 1).  The model runs over a    *)
(* small prime in place of the program's 2^64 - 2^32 + 1, one for which    *)
(* x^3 - x + 1 has no root, so that the extension is a field too.          *)
(* Every cycle, pointer and value the model produces stays below P, so no  *)
(* base-field counter wraps, as none does in the program.                  *)
(*                                                                         *)
(* Rust vectors are indexed from 0 and TLA+ sequences from 1: column c of  *)
(* a row is row[c + 1], and matrix[i] of the code is m[i + 1].             *)
(***************************************************************************)
EXTENDS Integers, Sequences, FiniteSets, TLC

\* ------------------------------------------------------------------ bounds

\* Longest processor trace (number of Register snapshots) handed to derive_matrix.
MaxLen == 4

\* Largest memory pointer of an input register.
MaxPtr == 1

\* ------------------------------------------------------- program constants

CYCLE == 0
MEMORY_POINTER == 1
MEMORY_VALUE == 2
INTERWEAVED == 3
PERMUTATION == 4
BASE_WIDTH == 4
FULL_WIDTH == 5
EXTENSION_CHALLENGE_COUNT == 11
PERMUTATION_ARGUMENTS_COUNT == 2
TERMINAL_COUNT == 2

\* The modulus of BFieldElement, scaled down (see the header).
P == 31

\* ------------------------------------------------------- base field (mod P)

BAdd(a, b) == (a + b) % P
BSub(a, b) == (a + P - b) % P
BMul(a, b) == (a * b) % P

\* ---------------------------------------- extension field F_P[x]/(x^3-x+1)

XZero == <<0, 0, 0>>
XOne == <<1, 0, 0>>
lift(b) == <<b, 0, 0>>
XAdd(a, b) == <<BAdd(a[1], b[1]), BAdd(a[2], b[2]), BAdd(a[3], b[3])>>
XSub(a, b) == <<BSub(a[1], b[1]), BSub(a[2], b[2]), BSub(a[3], b[3])>>
XMul(a, b) ==
    LET c0 == a[1] * b[1]
        c1 == a[1] * b[2] + a[2] * b[1]
        c2 == a[1] * b[3] + a[2] * b[2] + a[3] * b[1]
        c3 == a[2] * b[3] + a[3] * b[2]
        c4 == a[3] * b[3]
    IN  \* x^3 = x - 1 and x^4 = x^2 - x
        << (c0 + P * P * 4 - c3) % P, (c1 + c3 + P * P * 4 - c4) % P, (c2 + c4) % P >>



\* ------------------------------------------------------------------- rows

Col(row, c) == row[c + 1]

\* Mutant of project_row: the pointer pushed in the value column too.
project_row_pointer_twice(pt) == <<pt.cycle, pt.memory_pointer, pt.memory_pointer, 0>>

\* vec![pt.cycle, pt.memory_pointer, pt.memory_value, BFieldElement::zero()]
project_row(pt) == <<pt.cycle, pt.memory_pointer, pt.memory_value, 0>>

\* matrix.insert(index, row), index counted from 0
insert(m, index, row) == SubSeq(m, 1, index) \o <<row>> \o SubSeq(m, index + 1, Len(m))

\* ---------------------------------------------------------- derive_matrix

\* The first loop of derive_matrix, from row i on, with the rows pushed so
\* far: the last register is skipped, a zero instruction on any other row
\* stops the function with the index of that row.
RECURSIVE project_loop(_, _, _)
project_loop(pm, i, acc) ==
    IF i >= Len(pm) THEN [panicked |-> FALSE, row |-> -1, matrix |-> acc]
    ELSE IF i = Len(pm) - 1 THEN project_loop(pm, i + 1, acc)
    ELSE IF pm[i + 1].current_instruction = 0
         THEN [panicked |-> TRUE, row |-> i, matrix |-> <<>>]
         ELSE project_loop(pm, i + 1, Append(acc, project_row(pm[i + 1])))

\* Mutant of insert_sorted: r goes before the rows with its own key, which
\* reverses the rows of one address.
insert_sorted_before_equal(s, r) ==
    LET cnt == Cardinality({j \in 1..Len(s) :
                   Col(s[j], MEMORY_POINTER) < Col(r, MEMORY_POINTER)})
    IN  SubSeq(s, 1, cnt) \o <<r>> \o SubSeq(s, cnt + 1, Len(s))

\* One step of the stable sort: r goes behind every row whose key is not
\* larger than its own.
insert_sorted(s, r) ==
    LET cnt == Cardinality({j \in 1..Len(s) :
                   Col(s[j], MEMORY_POINTER) <= Col(r, MEMORY_POINTER)})
    IN  SubSeq(s, 1, cnt) \o <<r>> \o SubSeq(s, cnt + 1, Len(s))

\* matrix.sort_by_key(|k| k[MEMORY_POINTER].value()): a stable sort.
RECURSIVE sort_by_key(_)
sort_by_key(m) ==
    IF Len(m) <= 1 THEN m
    ELSE insert_sorted(sort_by_key(SubSeq(m, 1, Len(m) - 1)), m[Len(m)])

\* The interweaving loop, at index i (counted from 0) of matrix m.
RECURSIVE interweave_loop(_, _)
interweave_loop(m, i) ==
    IF i < Len(m) - 1
    THEN IF /\ Col(m[i + 2], MEMORY_POINTER) = Col(m[i + 1], MEMORY_POINTER)
            /\ Col(m[i + 2], CYCLE) # BAdd(Col(m[i + 1], CYCLE), 1)
         THEN interweave_loop(
                  insert(m, i + 1, << BAdd(Col(m[i + 1], CYCLE), 1),
                                      Col(m[i + 1], MEMORY_POINTER),
                                      Col(m[i + 1], MEMORY_VALUE),
                                      1 >>),
                  i + 1)
         ELSE interweave_loop(m, i + 1)
    ELSE m

\* let mut i = 1; while i < matrix.len() - 1 { ... }
interweave(m) == interweave_loop(m, 1)

\* derive_matrix: what it returns, or how it stops.  On an empty matrix
\* matrix.len() - 1 underflows: a build with overflow checks stops there, a
\* build without them wraps to usize::MAX and stops at matrix[i + 1].
derive_matrix(pm) ==
    LET projected == project_loop(pm, 0, <<>>)
    IN  IF projected.panicked
        THEN [panicked |-> TRUE, row |-> projected.row, matrix |-> <<>>,
              why |-> {"instruction_zero"}]
        ELSE IF Len(projected.matrix) = 0
        THEN [panicked |-> TRUE, row |-> -1, matrix |-> <<>>,
              why |-> {"subtract_with_overflow", "index_out_of_bounds"}]
        ELSE [panicked |-> FALSE, row |-> -1,
              matrix |-> interweave(sort_by_key(projected.matrix)),
              why |-> {"none"}]

\* -------------------------------------------------------------------- pad

\* other::is_power_of_two
RECURSIVE is_power_of_two(_)
is_power_of_two(n) ==
    IF n <= 0 THEN FALSE
    ELSE IF n = 1 THEN TRUE
    ELSE n % 2 = 0 /\ is_power_of_two(n \div 2)

\* Mutant of padding_row: the cycle is not advanced.
padding_row_same_cycle(last) == [last EXCEPT ![INTERWEAVED + 1] = 1]

\* Mutant of padding_row: the flag is advanced (+= one) instead of set.
padding_row_flag_added(last) ==
    [last EXCEPT ![CYCLE + 1] = BAdd(last[CYCLE + 1], 1),
                 ![INTERWEAVED + 1] = BAdd(last[INTERWEAVED + 1], 1)]

\* Mutant of padding_row: the pointer is advanced along with the cycle.
padding_row_pointer_advanced(last) ==
    [last EXCEPT ![CYCLE + 1] = BAdd(last[CYCLE + 1], 1),
                 ![MEMORY_POINTER + 1] = BAdd(last[MEMORY_POINTER + 1], 1),
                 ![INTERWEAVED + 1] = 1]

\* Mutant of padding_row: the flag of the last row is kept.
padding_row_flag_kept(last) == [last EXCEPT ![CYCLE + 1] = BAdd(last[CYCLE + 1], 1)]

\* The row pad pushes: the last row with its cycle advanced and its flag set.
padding_row(last) ==
    [last EXCEPT ![CYCLE + 1] = BAdd(last[CYCLE + 1], 1), ![INTERWEAVED + 1] = 1]

\* The loop of pad on a non-empty matrix.
RECURSIVE pad(_)
pad(m) ==
    IF ~is_power_of_two(Len(m)) THEN pad(Append(m, padding_row(m[Len(m)]))) ELSE m

\* ------------------------------------------------- transition constraints

\* Mutant of transition_constraints_afo_named_variables: the sixth polynomial
\* takes the value of the current row in place of the next row's.
transition_constraints_value_of_current_row(cycle, address, value, interweaved, cycle_next, address_next, value_next, interweaved_next) ==
    << BMul(BSub(BSub(address_next, address), 1), BSub(address_next, address)),
       BMul(BSub(BSub(address_next, address), 1), BSub(BSub(cycle_next, cycle), 1)),
       BMul(interweaved, BSub(address_next, address)),
       BMul(interweaved, BSub(value, value_next)),
       BMul(interweaved_next, BSub(interweaved_next, 1)),
       BMul(BSub(address_next, address), value) >>

\* The six polynomials of transition_constraints_afo_named_variables,
\* evaluated at base field values of the eight named variables.
transition_constraints_afo_named_variables(cycle, address, value, interweaved, cycle_next, address_next, value_next, interweaved_next) ==
    << \* 1. memory pointer increases by one or zero
       BMul(BSub(BSub(address_next, address), 1), BSub(address_next, address)),
       \* 2. if memory pointer does not increase, the clock cycle must increase by one
       BMul(BSub(BSub(address_next, address), 1), BSub(BSub(cycle_next, cycle), 1)),
       \* 3. if row is an interweaved row, the memory pointer may not change
       BMul(interweaved, BSub(address_next, address)),
       \* 4. if row is an interweaved row, the memory value may not change
       BMul(interweaved, BSub(value, value_next)),
       \* 5. interweave value is either one or zero (of the next row)
       BMul(interweaved_next, BSub(interweaved_next, 1)),
       \* 6. if memory pointer increases by one, then memory value must be zero
       BMul(BSub(address_next, address), value_next) >>

\* base_transition_constraints, evaluated at a point of 2 * BASE_WIDTH
\* values: vars[0..3] are the row, vars[4..7] the next row.
base_transition_constraints(point) ==
    transition_constraints_afo_named_variables(
        point[0 + 1], point[1 + 1], point[2 + 1], point[3 + 1],
        point[4 + 1], point[5 + 1], point[6 + 1], point[7 + 1])

\* The same six polynomials with their coefficients lifted
\* (lift_coefficients_to_xfield), evaluated at extension field values.
lifted_transition_constraints_afo_named_variables(cycle, address, value, interweaved, cycle_next, address_next, value_next, interweaved_next) ==
    << XMul(XSub(XSub(address_next, address), XOne), XSub(address_next, address)),
       XMul(XSub(XSub(address_next, address), XOne), XSub(XSub(cycle_next, cycle), XOne)),
       XMul(interweaved, XSub(address_next, address)),
       XMul(interweaved, XSub(value, value_next)),
       XMul(interweaved_next, XSub(interweaved_next, XOne)),
       XMul(XSub(address_next, address), value_next) >>

\* ----------------------------------------------------------------- extend

\* Mutant of extend_running_product: every row multiplies, interweaved or not.
extend_running_product_every_row(all_challenges, new_row, running_product) ==
    XMul(running_product,
         XSub(XSub(XSub(all_challenges[7 + 1], XMul(all_challenges[3 + 1], Col(new_row, CYCLE))),
                   XMul(all_challenges[4 + 1], Col(new_row, MEMORY_POINTER))),
              XMul(all_challenges[5 + 1], Col(new_row, MEMORY_VALUE))))

\* Mutant of extend_running_product: the weights d and e exchanged.
extend_running_product_d_e_swapped(all_challenges, new_row, running_product) ==
    IF Col(new_row, INTERWEAVED) = XZero
    THEN XMul(running_product,
              XSub(XSub(XSub(all_challenges[7 + 1], XMul(all_challenges[4 + 1], Col(new_row, CYCLE))),
                        XMul(all_challenges[3 + 1], Col(new_row, MEMORY_POINTER))),
                   XMul(all_challenges[5 + 1], Col(new_row, MEMORY_VALUE))))
    ELSE running_product

\* The running product after a row of extend's loop: multiplied by the
\* row's factor when the row's interweaved entry is zero.
extend_running_product(all_challenges, new_row, running_product) ==
    LET d == all_challenges[3 + 1]
        e == all_challenges[4 + 1]
        f == all_challenges[5 + 1]
        beta == all_challenges[7 + 1]
    IN  IF Col(new_row, INTERWEAVED) = XZero
        THEN XMul(running_product,
                  XSub(XSub(XSub(beta, XMul(d, Col(new_row, CYCLE))),
                            XMul(e, Col(new_row, MEMORY_POINTER))),
                       XMul(f, Col(new_row, MEMORY_VALUE))))
        ELSE running_product

\* Mutant of extend_row: the running product is pushed before the lifts.
extend_row_permutation_first(row, running_product) ==
    <<running_product>> \o [j \in 1..Len(row) |-> lift(row[j])]

\* The row extend builds from a base row: its lifts, then the running product.
extend_row(row, running_product) ==
    [j \in 1..Len(row) |-> lift(row[j])] \o <<running_product>>

\* The loop of extend from row i (counted from 0) on: the rows built so far
\* and the running product.
RECURSIVE extend_loop(_, _, _, _, _)
extend_loop(m, all_challenges, i, running_product, acc) ==
    IF i >= Len(m)
    THEN [extended_matrix |-> acc, permutation_terminal |-> running_product]
    ELSE
      LET new_row == extend_row(m[i + 1], running_product)
      IN  extend_loop(m, all_challenges, i + 1,
                      extend_running_product(all_challenges, new_row, running_product),
                      Append(acc, new_row))

\* Mutant of extend: the terminal is the permutation entry of the last row,
\* without that row's factor.
extend_terminal_of_last_row(m, all_challenges, all_initials) ==
    LET r == extend_loop(m, all_challenges, 0, all_initials[1 + 1], <<>>)
    IN  [r EXCEPT !.permutation_terminal =
            IF Len(m) = 0 THEN all_initials[1 + 1]
            ELSE Col(r.extended_matrix[Len(m)], PERMUTATION)]

\* extend: the extended matrix and the terminal it leaves in the table.
extend(m, all_challenges, all_initials) ==
    extend_loop(m, all_challenges, 0, all_initials[1 + 1], <<>>)

\* ------------------------------------------------- extension constraints

\* transition_constraints_ext(challenges), evaluated at a point of
\* 2 * FULL_WIDTH extension field values (a row, then the next row).
transition_constraints_ext(all_challenges, xpoint) ==
    LET d == all_challenges[3 + 1]
        e == all_challenges[4 + 1]
        f == all_challenges[5 + 1]
        beta == all_challenges[7 + 1]
        cycle == xpoint[0 + 1]
        address == xpoint[1 + 1]
        value == xpoint[2 + 1]
        interweaved == xpoint[3 + 1]
        permutation == xpoint[4 + 1]
        permutation_next == xpoint[9 + 1]
    IN  lifted_transition_constraints_afo_named_variables(
            xpoint[0 + 1], xpoint[1 + 1], xpoint[2 + 1], xpoint[3 + 1],
            xpoint[5 + 1], xpoint[6 + 1], xpoint[7 + 1], xpoint[8 + 1])
        \o
        << XSub(XMul(permutation,
                     XAdd(XMul(XSub(XSub(XSub(beta, XMul(d, cycle)), XMul(e, address)),
                                    XMul(f, value)),
                               XSub(XOne, interweaved)),
                          interweaved)),
                permutation_next) >>

\* boundary_constraints_ext, evaluated at a row of FULL_WIDTH values.
boundary_constraints_ext(xrow) ==
    << XSub(Col(xrow, CYCLE), XZero),
       XSub(Col(xrow, MEMORY_POINTER), XZero),
       XSub(Col(xrow, MEMORY_VALUE), XZero) >>

\* terminal_constraints_ext(challenges, terminals), evaluated at a row.
terminal_constraints_ext(all_challenges, terminals, xrow) ==
    LET d == all_challenges[3 + 1]
        e == all_challenges[4 + 1]
        f == all_challenges[5 + 1]
        beta == all_challenges[7 + 1]
        processor_memory_permutation_terminal == terminals[1 + 1]
        cycle == Col(xrow, CYCLE)
        memory_pointer == Col(xrow, MEMORY_POINTER)
        memory_value == Col(xrow, MEMORY_VALUE)
        permutation == Col(xrow, PERMUTATION)
        interweaved == Col(xrow, INTERWEAVED)
    IN  << XAdd(XMul(XSub(XMul(permutation,
                               XSub(XSub(XSub(beta, XMul(d, cycle)),
                                         XMul(e, memory_pointer)),
                                    XMul(f, memory_value))),
                          processor_memory_permutation_terminal),
                     XSub(XOne, interweaved)),
                XMul(XSub(permutation, processor_memory_permutation_terminal),
                     interweaved)) >>

\* Mutant of base_boundary_constraints: an empty list is returned.
base_boundary_constraints_empty(m) ==
    [returned |-> TRUE, polynomials |-> <<>>, why |-> "none"]

\* base_boundary_constraints on a table with matrix m: todo!() stops the
\* program before anything is returned.
base_boundary_constraints(m) ==
    [returned |-> FALSE, polynomials |-> <<>>, why |-> "not_yet_implemented"]

\* ------------------------------------------------------------------ inputs

\* A Register of the processor trace: the four fields derive_matrix reads.
Register(c, mp, mv, ci) ==
    [cycle |-> c, memory_pointer |-> mp, memory_value |-> mv, current_instruction |-> ci]

\* The cycle columns tried: the VM's own (register k has cycle k) and one
\* with two cycles missing between any two registers (register k has cycle
\* 3k).
CycleColumns(n) == { [k \in 1..n |-> k - 1], [k \in 1..n |-> 3 * (k - 1)] }

\* The pointer columns tried: those of the VM, which starts at cell 0 and
\* moves by at most one cell per step, over the cells 0..MaxPtr.
PointerColumns(n) ==
    { mps \in [1..n -> 0..MaxPtr] :
        /\ n >= 1 => mps[1] = 0
        /\ \A k \in 1..(n - 1) : mps[k + 1] - mps[k] \in {-1, 0, 1} }

\* The value and instruction columns tried: values 0 or 1, tags zero or
\* nonzero, in every register.
ValueColumns(n) == [1..n -> 0..1]
InstructionColumns(n) == [1..n -> 0..1]

\* The processor trace of n registers with the given columns.
MkTrace(n, cs, mps, mvs, cis) ==
    [k \in 1..n |-> Register(cs[k], mps[k], mvs[k], cis[k])]

\* Challenges: eleven extension field elements, of which the memory table
\* reads d, e, f (indices 3, 4, 5) and beta (index 7).
MkChallenges(d, e, f, beta) ==
    << <<1, 1, 0>>, <<2, 2, 0>>, <<3, 3, 0>>, d, e, f,
       <<6, 6, 0>>, beta, <<8, 8, 0>>, <<9, 9, 0>>, <<10, 10, 0>> >>

\* Initials: two extension field elements, of which the memory table reads
\* index 1.
MkInitials(processor_memory_permutation_initial) ==
    << <<7, 7, 7>>, processor_memory_permutation_initial >>

\* The arguments extend is tried with: challenges and an initial in the
\* base field, and challenges and an initial outside it.
ExtendArguments ==
    { << MkChallenges(<<1, 0, 0>>, <<2, 0, 0>>, <<3, 0, 0>>, <<5, 0, 0>>),
         MkInitials(XOne) >>,
      << MkChallenges(<<2, 1, 0>>, <<0, 3, 1>>, <<4, 0, 7>>, <<6, 5, 3>>),
         MkInitials(<<3, 1, 2>>) >> }

\* ------------------------------------------------------------------- state

VARIABLES
    pc,                   \* the last operation completed on the table
    processor_matrix,     \* the trace handed to derive_matrix
    matrix,               \* Table.matrix
    extended_matrix,      \* Table.extended_matrix
    permutation_terminal, \* MemoryTableMore.permutation_terminal
    challenges,           \* the challenges of the last extend
    initials,             \* the initials of the last extend
    panic,                \* how a fatal stop happened, and at which trace row
    evaluation            \* the values of the constraint polynomials last evaluated

vars == << pc, processor_matrix, matrix, extended_matrix, permutation_terminal,
           challenges, initials, panic, evaluation >>

\* No constraint polynomial has been evaluated.
NoEvaluation == [transition |-> <<>>, boundary |-> <<>>]

NoPanic == [why |-> "none", row |-> -1]

\* MemoryTable::new: an empty table, with MemoryTableMore::new_more's terminal.
Init ==
    /\ pc = "new"
    /\ processor_matrix = <<>>
    /\ matrix = <<>>
    /\ extended_matrix = <<>>
    /\ permutation_terminal = XZero
    /\ challenges = <<>>
    /\ initials = <<>>
    /\ panic = NoPanic
    /\ evaluation = NoEvaluation

\* matrix = derive_matrix(trace) on a fresh table, for a trace of at least
\* one register (the VM records its final state even for an empty program).
DeriveMatrix ==
    /\ pc = "new"
    /\ \E n \in 1..MaxLen :
       \E cs \in CycleColumns(n), mps \in PointerColumns(n),
          mvs \in ValueColumns(n), cis \in InstructionColumns(n) :
         LET trace == MkTrace(n, cs, mps, mvs, cis)
             r == derive_matrix(trace)
         IN  /\ processor_matrix' = trace
             /\ IF r.panicked
                THEN /\ pc' = "panicked"
                     /\ \E w \in r.why : panic' = [why |-> w, row |-> r.row]
                     /\ matrix' = matrix
                ELSE /\ pc' = "derived"
                     /\ panic' = panic
                     /\ matrix' = r.matrix
    /\ UNCHANGED << extended_matrix, permutation_terminal, challenges, initials,
                    evaluation >>

\* Mutant of Pad: padding also resets permutation_terminal.
Pad_resets_terminal ==
    /\ pc \in {"new", "derived", "padded", "extended"}
    /\ IF Len(matrix) = 0
       THEN /\ pc' = "panicked"
            /\ panic' = [why |-> "unwrap_none", row |-> -1]
            /\ matrix' = matrix
       ELSE /\ pc' = "padded"
            /\ panic' = panic
            /\ matrix' = pad(matrix)
    /\ permutation_terminal' = XZero
    /\ UNCHANGED << processor_matrix, extended_matrix, challenges, initials,
                    evaluation >>

\* pad().  On an empty matrix last().unwrap() stops the program.
Pad ==
    /\ pc \in {"new", "derived", "padded", "extended"}
    /\ IF Len(matrix) = 0
       THEN /\ pc' = "panicked"
            /\ panic' = [why |-> "unwrap_none", row |-> -1]
            /\ matrix' = matrix
       ELSE /\ pc' = "padded"
            /\ panic' = panic
            /\ matrix' = pad(matrix)
    /\ UNCHANGED << processor_matrix, extended_matrix, permutation_terminal,
                    challenges, initials, evaluation >>

\* extend(all_challenges, all_initials)
Extend ==
    /\ pc \in {"new", "derived", "padded", "extended"}
    /\ \E args \in ExtendArguments :
         LET all_challenges == args[1]
             all_initials == args[2]
             r == extend(matrix, all_challenges, all_initials)
         IN  /\ extended_matrix' = r.extended_matrix
             /\ permutation_terminal' = r.permutation_terminal
             /\ challenges' = all_challenges
             /\ initials' = all_initials
    /\ pc' = "extended"
    /\ UNCHANGED << processor_matrix, matrix, panic, evaluation >>

\* base_boundary_constraints() on the table, in any state of it.
BaseBoundaryConstraints ==
    /\ pc \in {"new", "derived", "padded", "extended"}
    /\ LET r == base_boundary_constraints(matrix)
       IN  IF r.returned
           THEN /\ pc' = "boundary_built"
                /\ panic' = panic
                /\ evaluation' = [evaluation EXCEPT !.boundary = r.polynomials]
           ELSE /\ pc' = "panicked"
                /\ panic' = [why |-> r.why, row |-> -1]
                /\ evaluation' = evaluation
    /\ UNCHANGED << processor_matrix, matrix, extended_matrix, permutation_terminal,
                    challenges, initials >>

Next == DeriveMatrix \/ Pad \/ Extend \/ BaseBoundaryConstraints

Spec == Init /\ [][Next]_vars

\* ------------------------------------------------------- claims: helpers

Last(s) == s[Len(s)]

\* The registers of the trace other than the final one, as indices.
NonFinal(pm) == 1..(Len(pm) - 1)

\* Every adjacent pair of rows of m satisfies the six base transition
\* constraints.
BaseTransitionsHold(m) ==
    \A i \in 1..(Len(m) - 1) :
       \A k \in 1..6 : base_transition_constraints(m[i] \o m[i + 1])[k] = 0

\* Every interweaved flag of m is 0 or 1.
FlagsBoolean(m) == \A i \in 1..Len(m) : Col(m[i], INTERWEAVED) \in {0, 1}

\* A well-formed VM trace: at least two registers, register k has cycle k,
\* the first register has pointer 0 and value 0, the pointer moves by at
\* most one per step and stays at or above 0, every instruction tag but the
\* last is nonzero, a first-visited address holds 0, and the value at an
\* address is the same when the pointer comes back to it.
WellFormedTrace(pm) ==
    /\ Len(pm) >= 2
    /\ \A k \in 1..Len(pm) : pm[k].cycle = k - 1
    /\ pm[1].memory_pointer = 0 /\ pm[1].memory_value = 0
    /\ \A k \in 1..Len(pm) : pm[k].memory_pointer >= 0
    /\ \A k \in NonFinal(pm) :
          pm[k + 1].memory_pointer - pm[k].memory_pointer \in {-1, 0, 1}
    /\ \A k \in NonFinal(pm) : pm[k].current_instruction # 0
    /\ \A k \in 1..Len(pm) :
          (\A j \in 1..(k - 1) : pm[j].memory_pointer # pm[k].memory_pointer)
             => pm[k].memory_value = 0
    /\ \A j \in 1..Len(pm) : \A k \in (j + 2)..Len(pm) :
          ( /\ pm[j].memory_pointer = pm[k].memory_pointer
            /\ \A l \in (j + 1)..(k - 1) : pm[l].memory_pointer # pm[k].memory_pointer )
             => pm[k].memory_value = pm[j].memory_value

\* ------------------------------------------------------------------ claims

\* C1: for every well-formed VM trace, all six base transition constraints
\* are zero on every adjacent pair of rows of the matrix derive_matrix
\* returns.
C1_BaseConstraintsOnDerived ==
    (pc = "derived" /\ WellFormedTrace(processor_matrix))
       => BaseTransitionsHold(matrix)

\* C2: for every trace with strictly increasing cycles and nonzero tags on
\* the non-final rows, any two adjacent rows of the derived matrix with the
\* same memory pointer, rows 0 and 1 included, have consecutive cycles.
C2_SamePointerConsecutiveCycles ==
    pc = "derived" =>
       \A i \in 1..(Len(matrix) - 1) :
          Col(matrix[i + 1], MEMORY_POINTER) = Col(matrix[i], MEMORY_POINTER)
             => Col(matrix[i + 1], CYCLE) = BAdd(Col(matrix[i], CYCLE), 1)

\* Every adjacent pair of rows of the extended matrix xm satisfies the seven
\* polynomials of transition_constraints_ext(ch).
ExtTransitionsHold(ch, xm) ==
    \A i \in 1..(Len(xm) - 1) :
       \A k \in 1..7 : transition_constraints_ext(ch, xm[i] \o xm[i + 1])[k] = XZero

\* The state extend leaves: the extended matrix is the one of the base matrix.
Extended == pc = "extended"

\* C3: if the base matrix satisfies the six base transition constraints and
\* has boolean flags then, after extend with any challenges and initials,
\* all seven polynomials of transition_constraints_ext(challenges) are zero
\* on every adjacent pair of rows of the extended matrix.
C3_ExtTransitionsAfterExtend ==
    (Extended /\ BaseTransitionsHold(matrix) /\ FlagsBoolean(matrix))
       => ExtTransitionsHold(challenges, extended_matrix)

\* C3 witness: an extended table of at least four rows that satisfies the
\* base constraints, with a genuine row after row 0 and an interweaved row
\* before the last one, under challenges outside the base field and a
\* running product that is not zero.
C3_Witness ==
    /\ Extended /\ BaseTransitionsHold(matrix) /\ FlagsBoolean(matrix)
    /\ Len(extended_matrix) >= 4
    /\ \E i \in 2..(Len(matrix) - 1) : Col(matrix[i], INTERWEAVED) = 0
    /\ \E i \in 2..(Len(matrix) - 1) : Col(matrix[i], INTERWEAVED) = 1
    /\ challenges[3 + 1][2] # 0
    /\ permutation_terminal # XZero

\* C4: after extend on a non-empty matrix with boolean flags, the polynomial
\* of terminal_constraints_ext(challenges, terminals) is zero on the last
\* extended row when terminals[1] is the table's permutation_terminal,
\* whether the last row is interweaved or not.
C4_TerminalConstraintOnLastRow ==
    (Extended /\ Len(matrix) > 0 /\ FlagsBoolean(matrix))
       => \A t0 \in {XZero, <<7, 7, 7>>} :
             terminal_constraints_ext(challenges, <<t0, permutation_terminal>>,
                                      Last(extended_matrix)) = <<XZero>>

\* C4 witness: an extended table whose last row is interweaved and follows a
\* genuine row, with a terminal that is not zero.
C4_Witness ==
    /\ Extended /\ Len(matrix) >= 2 /\ FlagsBoolean(matrix)
    /\ Col(Last(matrix), INTERWEAVED) = 1
    /\ Col(matrix[Len(matrix) - 1], INTERWEAVED) = 0
    /\ permutation_terminal # XZero
    /\ challenges[7 + 1][3] # 0

\* The factor of a base row in the permutation argument:
\* beta - d * cycle - e * address - f * value.
RowFactor(ch, row) ==
    XSub(XSub(XSub(ch[7 + 1], XMul(ch[3 + 1], lift(Col(row, CYCLE)))),
              XMul(ch[4 + 1], lift(Col(row, MEMORY_POINTER)))),
         XMul(ch[5 + 1], lift(Col(row, MEMORY_VALUE))))

\* The product of the factors of the rows of m whose flag is 0.
RECURSIVE GenuineProduct(_, _)
GenuineProduct(ch, m) ==
    IF Len(m) = 0 THEN XOne
    ELSE LET rest == GenuineProduct(ch, SubSeq(m, 2, Len(m)))
         IN  IF Col(m[1], INTERWEAVED) = 0 THEN XMul(RowFactor(ch, m[1]), rest) ELSE rest

\* C5: after extend, the permutation column starts at initials[1], advances
\* by the row's factor after a row with flag 0 and is unchanged after an
\* interweaved row, and permutation_terminal is initials[1] times the
\* product of the factors of exactly the rows with flag 0.
C5_RunningProduct ==
    Extended =>
       /\ Len(extended_matrix) = Len(matrix)
       /\ Len(matrix) > 0 => Col(extended_matrix[1], PERMUTATION) = initials[1 + 1]
       /\ \A i \in 1..(Len(matrix) - 1) :
             Col(extended_matrix[i + 1], PERMUTATION) =
                IF Col(matrix[i], INTERWEAVED) = 0
                THEN XMul(Col(extended_matrix[i], PERMUTATION), RowFactor(challenges, matrix[i]))
                ELSE Col(extended_matrix[i], PERMUTATION)
       /\ permutation_terminal = XMul(initials[1 + 1], GenuineProduct(challenges, matrix))

\* C5 witness: an extended table with at least two genuine rows and an
\* interweaved row between genuine ones, an initial other than one, and a
\* terminal that differs from the initial.
C5_Witness ==
    /\ Extended
    /\ Cardinality({i \in 1..Len(matrix) : Col(matrix[i], INTERWEAVED) = 0}) >= 2
    /\ \E i \in 2..(Len(matrix) - 1) :
          /\ Col(matrix[i], INTERWEAVED) = 1
          /\ Col(matrix[i + 1], INTERWEAVED) = 0
    /\ initials[1 + 1] # XOne
    /\ permutation_terminal # initials[1 + 1]
    /\ permutation_terminal # XZero

\* n is a power of two.
PowerOfTwo(n) == \E x \in 0..n : n = 2 ^ x

\* The matrix derive_matrix returned for the trace of this table.
Unpadded == derive_matrix(processor_matrix).matrix

\* C6: for a non-empty matrix, after pad the row count is the smallest power
\* of two that is at least the count before, the rows that were there are
\* unchanged (all of them when the count was a power of two already), and
\* every appended row has flag 1, the cycle of the row before it plus one,
\* and that row's pointer and value.
C6_PadToPowerOfTwo ==
    (pc = "padded" /\ Len(Unpadded) > 0) =>
       /\ PowerOfTwo(Len(matrix))
       /\ Len(matrix) >= Len(Unpadded)
       /\ \A q \in Len(Unpadded)..(Len(matrix) - 1) : ~PowerOfTwo(q)
       /\ SubSeq(matrix, 1, Len(Unpadded)) = Unpadded
       /\ \A i \in (Len(Unpadded) + 1)..Len(matrix) :
             /\ Col(matrix[i], INTERWEAVED) = 1
             /\ Col(matrix[i], CYCLE) = BAdd(Col(matrix[i - 1], CYCLE), 1)
             /\ Col(matrix[i], MEMORY_POINTER) = Col(matrix[i - 1], MEMORY_POINTER)
             /\ Col(matrix[i], MEMORY_VALUE) = Col(matrix[i - 1], MEMORY_VALUE)

\* C6 witness: a padded table that grew from five rows to eight, the last
\* of the five being a genuine row with value 1 that follows a synthetic row.
C6_Witness ==
    /\ pc = "padded"
    /\ Len(Unpadded) = 5 /\ Len(matrix) = 8
    /\ Col(Last(Unpadded), INTERWEAVED) = 0
    /\ Col(Last(Unpadded), MEMORY_VALUE) = 1
    /\ Col(Unpadded[4], INTERWEAVED) = 1

\* The rows of the trace, other than the final one, with a zero tag
\* (counted from 0, as the failure message counts them).
ZeroTagRows(pm) == { k - 1 : k \in { j \in NonFinal(pm) : pm[j].current_instruction = 0 } }

\* derive_matrix stopped fatally instead of returning a matrix.
DerivationFailed ==
    /\ pc = "panicked"
    /\ panic.why \in {"instruction_zero", "subtract_with_overflow", "index_out_of_bounds"}

\* derive_matrix has run on the trace of this table.
Derivation == processor_matrix # <<>> \/ DerivationFailed

\* C7: derive_matrix fails fatally, returning no matrix, if and only if a
\* row of the trace other than the final one has a zero instruction tag; a
\* zero tag on the final row alone is no failure; and the failure names the
\* first such row.
C7_FailsIffZeroTag ==
    Derivation =>
       /\ DerivationFailed <=> ZeroTagRows(processor_matrix) # {}
       /\ DerivationFailed =>
             /\ matrix = <<>>
             /\ \A r \in ZeroTagRows(processor_matrix) : panic.row <= r
             /\ panic.row \in ZeroTagRows(processor_matrix)

\* The rows of m with flag 0, in the order they have in m.
GenuineRows(m) == SelectSeq(m, LAMBDA row : Col(row, INTERWEAVED) = 0)

\* The set of the entries of a sequence.
Range(sq) == { sq[i] : i \in 1..Len(sq) }

\* C8: for a valid trace of n >= 2 registers, the rows of the derived matrix
\* with flag 0 are exactly the projections (cycle, pointer, value, 0) of the
\* first n - 1 registers, each once; the final register gives no row, and
\* the matrix is not empty.
C8_GenuineRowsAreProjections ==
    (pc = "derived" /\ Len(processor_matrix) >= 2) =>
       /\ Len(matrix) > 0
       /\ Len(GenuineRows(matrix)) = Len(processor_matrix) - 1
       /\ Range(GenuineRows(matrix)) =
             { << processor_matrix[k].cycle, processor_matrix[k].memory_pointer,
                  processor_matrix[k].memory_value, 0 >> : k \in NonFinal(processor_matrix) }

\* C8 witness: a derived matrix of a four-register trace that visits two
\* addresses and has synthetic rows besides the three genuine ones; row 0
\* and the discarded final register hold value 1.
C8_Witness ==
    /\ pc = "derived" /\ Len(processor_matrix) = 4
    /\ Len(matrix) > 3
    /\ \E i \in 1..Len(matrix) : Col(matrix[i], MEMORY_VALUE) = 1
    /\ \E i \in 1..Len(matrix) : Col(matrix[i], MEMORY_POINTER) = 1
    /\ Col(matrix[1], MEMORY_VALUE) = 1
    /\ Last(processor_matrix).memory_value = 1

\* C9: after derive_matrix, pad and extend in any order the code allows, the
\* interweaved entry of every base row is 0 or 1 and that of every extended
\* row is the lift of 0 or of 1.
C9_FlagsAreBoolean ==
    /\ FlagsBoolean(matrix)
    /\ \A i \in 1..Len(extended_matrix) :
          Col(extended_matrix[i], INTERWEAVED) \in {lift(0), lift(1)}

\* C9 witness: a derived, padded and extended table with genuine rows,
\* synthetic rows of derive_matrix and filler rows of pad.
C9_Witness ==
    /\ Extended
    /\ Len(matrix) > Len(Unpadded)
    /\ Len(extended_matrix) = Len(matrix)
    /\ \E i \in 1..Len(Unpadded) : Col(extended_matrix[i], INTERWEAVED) = lift(1)
    /\ Col(Last(Unpadded), INTERWEAVED) = 0
    /\ Col(Last(extended_matrix), INTERWEAVED) = lift(1)

\* The first register of the trace has cycle 0, pointer 0 and value 0.
FirstRegisterZero(pm) ==
    /\ Len(pm) >= 1
    /\ pm[1].cycle = 0 /\ pm[1].memory_pointer = 0 /\ pm[1].memory_value = 0

\* The three boundary polynomials are zero on the extended row xrow.
BoundaryHolds(xrow) == boundary_constraints_ext(xrow) = <<XZero, XZero, XZero>>

\* C10: the boundary constraints are three polynomials that are all zero on
\* a row exactly when its cycle, pointer and value are zero, whatever its
\* flag and permutation entries; and for a trace whose first register has
\* cycle 0, pointer 0 and value 0 they are zero on row 0 of the derived
\* matrix, and still after pad and extend.
C10_BoundaryOnRowZero ==
    /\ \A i \in 1..Len(extended_matrix) :
          /\ Len(boundary_constraints_ext(extended_matrix[i])) = 3
          /\ BoundaryHolds(extended_matrix[i]) <=>
                /\ Col(extended_matrix[i], CYCLE) = XZero
                /\ Col(extended_matrix[i], MEMORY_POINTER) = XZero
                /\ Col(extended_matrix[i], MEMORY_VALUE) = XZero
    /\ (FirstRegisterZero(processor_matrix) /\ Len(matrix) > 0) =>
          /\ BoundaryHolds(extend_row(matrix[1], XZero))
          /\ Extended => BoundaryHolds(extended_matrix[1])

\* C10 witness: a padded and extended table of a trace whose first register
\* is zero and which comes back to address 0 later with value 1; its row 0
\* has a permutation entry that is not zero and row 1 fails the boundary.
C10_Witness ==
    /\ Extended /\ FirstRegisterZero(processor_matrix)
    /\ Len(matrix) > Len(Unpadded)
    /\ Len(extended_matrix) = Len(matrix)
    /\ Col(extended_matrix[1], PERMUTATION) # XZero
    /\ ~BoundaryHolds(extended_matrix[2])
    /\ Col(matrix[2], MEMORY_POINTER) = 0 /\ Col(matrix[2], MEMORY_VALUE) = 1

\* ------------------------------------------- constraints on arbitrary tables
\* The constraint polynomials are evaluated on whatever table a prover hands
\* in: the matrix field is public, so a table need not come from
\* derive_matrix.  The largest field element in the entries of such tables.
MaxField == 2

\* The base rows with entries in 0..MaxField.
ArbitraryRows == [1..BASE_WIDTH -> 0..MaxField]

\* A table constructed with new() whose matrix was then set to two arbitrary
\* rows.
ConstraintInit ==
    /\ pc = "new"
    /\ processor_matrix = <<>>
    /\ matrix \in { <<row, next>> : row \in ArbitraryRows, next \in ArbitraryRows }
    /\ extended_matrix = <<>>
    /\ permutation_terminal = XZero
    /\ challenges = <<>>
    /\ initials = <<>>
    /\ panic = NoPanic
    /\ evaluation = NoEvaluation

\* The polynomials of base_transition_constraints(), evaluated at every pair
\* of adjacent rows of the matrix.
EvaluateTransitions ==
    /\ evaluation.transition = <<>>
    /\ evaluation' = [evaluation EXCEPT !.transition =
          [i \in 1..(Len(matrix) - 1) |->
              base_transition_constraints(matrix[i] \o matrix[i + 1])]]
    /\ UNCHANGED << pc, processor_matrix, matrix, extended_matrix,
                    permutation_terminal, challenges, initials, panic >>

\* The polynomials of boundary_constraints_ext(), evaluated at row 0 of the
\* matrix.
EvaluateBoundary ==
    /\ evaluation.boundary = <<>>
    /\ evaluation' = [evaluation EXCEPT !.boundary =
          boundary_constraints_ext(extend_row(matrix[1], XZero))]
    /\ UNCHANGED << pc, processor_matrix, matrix, extended_matrix,
                    permutation_terminal, challenges, initials, panic >>

ConstraintNext == EvaluateTransitions \/ EvaluateBoundary

ConstraintSpec == ConstraintInit /\ [][ConstraintNext]_vars

\* The transition polynomials have been evaluated on the table.
TransitionsEvaluated == evaluation.transition # <<>>

\* C11 as stated: the six polynomials are zero at a pair of rows exactly
\* when (1) the next pointer is the pointer or the pointer plus one, (2) the
\* next pointer being the pointer implies the next cycle is the cycle plus
\* one, (3) flag 1 implies the pointer stays, (4) flag 1 implies the value
\* stays, (5) the next flag is 0 or 1, (6) a changed pointer implies a next
\* value of 0.
C11_ZeroExactlyWhenStated ==
    TransitionsEvaluated =>
        LET row == matrix[1]
            next == matrix[2]
            polys == evaluation.transition[1]
            address == Col(row, MEMORY_POINTER)
            address_next == Col(next, MEMORY_POINTER)
        IN  /\ Len(polys) = 6
            /\ polys[1] = 0 <=> address_next \in {address, BAdd(address, 1)}
            /\ polys[2] = 0 <=>
                  (address_next = address =>
                      Col(next, CYCLE) = BAdd(Col(row, CYCLE), 1))
            /\ polys[3] = 0 <=>
                  (Col(row, INTERWEAVED) = 1 => address_next = address)
            /\ polys[4] = 0 <=>
                  (Col(row, INTERWEAVED) = 1 =>
                      Col(next, MEMORY_VALUE) = Col(row, MEMORY_VALUE))
            /\ polys[5] = 0 <=> Col(next, INTERWEAVED) \in {0, 1}
            /\ polys[6] = 0 <=>
                  (address_next # address => Col(next, MEMORY_VALUE) = 0)

\* C11 amended: the six polynomials are zero at a pair of rows exactly when
\* (1) the next pointer is the pointer or the pointer plus one, (2) the next
\* pointer not being the pointer plus one implies the next cycle is the
\* cycle plus one, (3) a flag other than 0 implies the pointer stays, (4) a
\* flag other than 0 implies the value stays, (5) the next flag is 0 or 1,
\* (6) a changed pointer implies a next value of 0.
C11_ZeroExactlyWhen ==
    TransitionsEvaluated =>
        LET row == matrix[1]
            next == matrix[2]
            polys == evaluation.transition[1]
            address == Col(row, MEMORY_POINTER)
            address_next == Col(next, MEMORY_POINTER)
        IN  /\ Len(polys) = 6
            /\ polys[1] = 0 <=> address_next \in {address, BAdd(address, 1)}
            /\ polys[2] = 0 <=>
                  (address_next # BAdd(address, 1) =>
                      Col(next, CYCLE) = BAdd(Col(row, CYCLE), 1))
            /\ polys[3] = 0 <=>
                  (Col(row, INTERWEAVED) # 0 => address_next = address)
            /\ polys[4] = 0 <=>
                  (Col(row, INTERWEAVED) # 0 =>
                      Col(next, MEMORY_VALUE) = Col(row, MEMORY_VALUE))
            /\ polys[5] = 0 <=> Col(next, INTERWEAVED) \in {0, 1}
            /\ polys[6] = 0 <=>
                  (address_next # address => Col(next, MEMORY_VALUE) = 0)

\* C11 witness: the polynomials were evaluated at a pair whose pointer steps
\* by two, whose cycle stays and whose flag is 2 with a changed value; the
\* first four polynomials are not zero there and the last two are.
C11_Witness ==
    /\ TransitionsEvaluated
    /\ Col(matrix[2], MEMORY_POINTER) = Col(matrix[1], MEMORY_POINTER) + 2
    /\ Col(matrix[2], CYCLE) = Col(matrix[1], CYCLE)
    /\ Col(matrix[1], INTERWEAVED) = 2
    /\ Col(matrix[2], MEMORY_VALUE) = 0 /\ Col(matrix[1], MEMORY_VALUE) = 1
    /\ \A k \in 1..4 : evaluation.transition[1][k] # 0
    /\ \A k \in 5..6 : evaluation.transition[1][k] = 0

\* The pairs <<j, k>> of non-final registers of the trace that access the
\* same address at cycles more than one apart with no access to it between.
AccessGaps(pm) ==
    { jk \in NonFinal(pm) \X NonFinal(pm) :
        /\ jk[1] < jk[2]
        /\ pm[jk[1]].memory_pointer = pm[jk[2]].memory_pointer
        /\ pm[jk[2]].cycle > pm[jk[1]].cycle + 1
        /\ \A l \in NonFinal(pm) :
              (jk[1] < l /\ l < jk[2]) =>
                  pm[l].memory_pointer # pm[jk[1]].memory_pointer }

\* C12: when an address A is accessed at cycle C1 and next at cycle
\* C2 > C1 + 1, the derived matrix holds between the rows of those two
\* accesses exactly the C2 - C1 - 1 synthetic rows of the cycles C1 + 1 to
\* C2 - 1 in ascending order, each with pointer A, flag 1 and the value of
\* the row of C1, wherever the row of C1 lands (index 0 included); and every
\* synthetic row of the matrix lies in such a gap.
C12_SyntheticRowsFillGaps ==
    pc = "derived" =>
        LET pm == processor_matrix
        IN  /\ \A jk \in AccessGaps(pm) :
                  LET first == pm[jk[1]]
                      second == pm[jk[2]]
                      gap == second.cycle - first.cycle
                  IN  \E i \in 1..Len(matrix) :
                         /\ matrix[i] = <<first.cycle, first.memory_pointer,
                                          first.memory_value, 0>>
                         /\ i + gap <= Len(matrix)
                         /\ \A t \in 1..(gap - 1) :
                               matrix[i + t] = <<first.cycle + t, first.memory_pointer,
                                                 first.memory_value, 1>>
                         /\ matrix[i + gap] = <<second.cycle, second.memory_pointer,
                                                second.memory_value, 0>>
            /\ \A i \in 1..Len(matrix) :
                  Col(matrix[i], INTERWEAVED) # 0 =>
                      \E jk \in AccessGaps(pm) :
                         /\ Col(matrix[i], MEMORY_POINTER) = pm[jk[1]].memory_pointer
                         /\ pm[jk[1]].cycle < Col(matrix[i], CYCLE)
                         /\ Col(matrix[i], CYCLE) < pm[jk[2]].cycle

\* C13: in every table of at least two rows on whose adjacent pairs the six
\* transition polynomials are all zero and on whose row 0 the three boundary
\* polynomials are all zero, the interweaved flag of row 0 is 0.
C13_RowZeroFlagForced ==
    ( /\ TransitionsEvaluated
      /\ evaluation.boundary # <<>>
      /\ Len(matrix) >= 2
      /\ \A i \in 1..Len(evaluation.transition) :
            \A k \in 1..6 : evaluation.transition[i][k] = 0
      /\ \A k \in 1..3 : evaluation.boundary[k] = XZero )
    => Col(matrix[1], INTERWEAVED) = 0

\* C14: pad preserves the transition constraints: when every adjacent pair
\* of a non-empty matrix satisfies the six constraints and every flag is 0
\* or 1, then after pad every adjacent pair does, the pair (last row from
\* before, first filler) and the pairs of fillers included, and the rows from
\* before are still there.
C14_PadPreservesTransitions ==
    [][ ( /\ pc' = "padded"
          /\ Len(matrix) > 0
          /\ BaseTransitionsHold(matrix)
          /\ FlagsBoolean(matrix) )
        => /\ BaseTransitionsHold(matrix')
           /\ FlagsBoolean(matrix')
           /\ SubSeq(matrix', 1, Len(matrix)) = matrix ]_vars

\* C14 witness: a padded matrix with at least three fillers after at least
\* two rows, whose rows from before the padding satisfy the six constraints.
C14_Witness ==
    /\ pc = "padded"
    /\ Len(Unpadded) >= 2
    /\ Len(matrix) >= Len(Unpadded) + 3
    /\ BaseTransitionsHold(Unpadded)
    /\ BaseTransitionsHold(matrix)
    /\ \A i \in (Len(Unpadded) + 1)..Len(matrix) : Col(matrix[i], INTERWEAVED) = 1

\* extend has been called on the table.
ExtendCalled == challenges # <<>>

\* C15 as stated: permutation_terminal is zero from construction until
\* extend is called, only a call of extend writes it, and once extend has
\* been called no later operation changes it again.
C15_MutatedExactlyOnce ==
    /\ [](~ExtendCalled => permutation_terminal = XZero)
    /\ [][permutation_terminal' # permutation_terminal => pc' = "extended"]_vars
    /\ [][ExtendCalled => permutation_terminal' = permutation_terminal]_vars

\* C15 amended: permutation_terminal is zero from construction until extend
\* is called, only a call of extend writes it, and every call of extend,
\* the first or a later one, sets it to that call's initial times the
\* factors of the rows with flag 0.
C15_WrittenByEveryExtend ==
    /\ [](~ExtendCalled => permutation_terminal = XZero)
    /\ [][permutation_terminal' # permutation_terminal => pc' = "extended"]_vars
    /\ [][pc' = "extended" =>
            permutation_terminal' =
                XMul(initials'[1 + 1], GenuineProduct(challenges', matrix))]_vars

\* C15 witness: a table that was extended to a terminal other than zero and
\* its initial, and padded afterwards.
C15_Witness ==
    /\ pc = "padded"
    /\ ExtendCalled
    /\ permutation_terminal \notin {XZero, initials[1 + 1]}
    /\ Len(extended_matrix) < Len(matrix)

\* C16: extend leaves the base matrix unchanged, and the extended matrix has
\* as many rows as it, each of exactly FULL_WIDTH = 5 entries: the first
\* four are the base row's entries in their column order, each as the
\* extension field element with that constant coefficient, and the fifth is
\* the running permutation value on entering the row: the initial on row 0,
\* and after a row the value of that row, times its factor when its flag
\* is 0.
C16_ExtendFrame ==
    [][ pc' = "extended" =>
          /\ matrix' = matrix
          /\ Len(extended_matrix') = Len(matrix)
          /\ \A i \in 1..Len(matrix) :
                /\ Len(extended_matrix'[i]) = FULL_WIDTH
                /\ \A c \in {CYCLE, MEMORY_POINTER, MEMORY_VALUE, INTERWEAVED} :
                      Col(extended_matrix'[i], c) = <<Col(matrix[i], c), 0, 0>>
                /\ Col(extended_matrix'[i], PERMUTATION) =
                      IF i = 1 THEN initials'[1 + 1]
                      ELSE IF Col(matrix[i - 1], INTERWEAVED) = 0
                           THEN XMul(Col(extended_matrix'[i - 1], PERMUTATION),
                                     RowFactor(challenges', matrix[i - 1]))
                           ELSE Col(extended_matrix'[i - 1], PERMUTATION) ]_vars

\* C16 witness: an extended table of at least four rows with a row whose
\* pointer and value are not zero, a synthetic row, and a permutation column
\* that is not constant.
C16_Witness ==
    /\ Extended
    /\ Len(matrix) >= 4 /\ Len(extended_matrix) = Len(matrix)
    /\ \E i \in 1..Len(matrix) :
          Col(matrix[i], MEMORY_POINTER) # 0 /\ Col(matrix[i], MEMORY_VALUE) # 0
    /\ \E i \in 1..Len(matrix) : Col(extended_matrix[i], INTERWEAVED) = XOne
    /\ \E i \in 1..Len(matrix) :
          Col(extended_matrix[i], PERMUTATION) # Col(extended_matrix[1], PERMUTATION)

\* The program stopped in base_boundary_constraints.
StoppedInBaseBoundary == pc = "panicked" /\ panic.why = "not_yet_implemented"

\* C17: base_boundary_constraints stops the program at the call and never
\* returns a value, in every state of the table (fresh, derived, padded,
\* extended), and the step of the call leaves every field of the table as
\* it was.
C17_BaseBoundaryStops ==
    /\ [](/\ pc # "boundary_built"
          /\ evaluation.boundary = <<>>
          /\ pc \in {"new", "derived", "padded", "extended"} =>
                ~base_boundary_constraints(matrix).returned)
    /\ [][ (panic'.why = "not_yet_implemented" /\ panic.why # "not_yet_implemented")
           => /\ pc' = "panicked"
              /\ UNCHANGED << processor_matrix, matrix, extended_matrix,
                              permutation_terminal, challenges, initials,
                              evaluation >> ]_vars

\* C17 witness: the program stopped in base_boundary_constraints on a table
\* that had been derived, padded by at least one row and extended.
C17_Witness ==
    /\ StoppedInBaseBoundary
    /\ ExtendCalled
    /\ Len(matrix) > Len(Unpadded)
    /\ Len(extended_matrix) = Len(matrix)
    /\ permutation_terminal # XZero

\* C18: padding does not change the permutation argument: extend on the
\* padded matrix gives the permutation_terminal that extend with the same
\* challenges and initials gives on the matrix before padding, and the
\* permutation column has one value, that terminal, on every filler row.
C18_PaddingKeepsPermutation ==
    (Extended /\ processor_matrix # <<>> /\ Len(Unpadded) > 0) =>
        /\ permutation_terminal =
              extend(Unpadded, challenges, initials).permutation_terminal
        /\ \A i \in (Len(Unpadded) + 1)..Len(extended_matrix) :
              Col(extended_matrix[i], PERMUTATION) = permutation_terminal

\* C18 witness: an extended table padded by at least three fillers after a
\* last row with flag 0, with a terminal that is neither zero nor the
\* initial.
C18_Witness ==
    /\ Extended /\ processor_matrix # <<>>
    /\ Len(Unpadded) >= 2
    /\ Len(extended_matrix) >= Len(Unpadded) + 3
    /\ Col(Last(Unpadded), INTERWEAVED) = 0
    /\ permutation_terminal \notin {XZero, initials[1 + 1]}
    /\ Col(Last(extended_matrix), PERMUTATION) = permutation_terminal

\* The cycles of the trace are strictly increasing.
CyclesIncrease(pm) == \A k \in NonFinal(pm) : pm[k].cycle < pm[k + 1].cycle

\* The number of cycles between the first and the last cycle of a non-empty
\* trace that no register of it has.
MissingCycles(pm) == (Last(pm).cycle - pm[1].cycle + 1) - Len(pm)

\* C19: on every non-empty trace with strictly increasing cycles and
\* nonzero instruction tags on all registers but the last, derive_matrix
\* returns a matrix and does not fail, the trace of a single register
\* included, which gives the empty matrix; and the interweaving loop inserts
\* no more rows than the trace has missing cycles.
C19_DeriveMatrixReturns ==
    ( /\ Derivation
      /\ Len(processor_matrix) >= 1
      /\ CyclesIncrease(processor_matrix)
      /\ ZeroTagRows(processor_matrix) = {} )
    => /\ ~DerivationFailed
       /\ Len(processor_matrix) = 1 => matrix = <<>>
       /\ pc = "derived" =>
             Len(matrix) - Len(GenuineRows(matrix)) <= MissingCycles(processor_matrix)

============================================================================
